---------------------------- MODULE Spec2Model ----------------------------
(***************************************************************************)
(* Job / task lifecycle of the article scraping service.                   *)
(*                                                                         *)
(*   api/services/publisher.py   publish_all, publish_article, create_job  *)
(*   consumer/consumer.py        Consumer.subscribe / process_article /    *)
(*                               handle_failure                            *)
(*   database/repositories/*.py  ArticleRepository, JobRepository          *)
(*                                                                         *)
(* The three stores are modelled as they are used: the MongoDB collections *)
(* "articles" and "jobs" as sequences of documents (a document's id is its *)
(* position, ids are handed out in creation order), the Redis sorted set   *)
(* "articles" as a set of (member, score) entries with unique members, and *)
(* the Redis list "failed_articles" as a sequence with LPUSH at its head.  *)
(* "arrivals" lists the resident members of the sorted set in the order    *)
(* they were added.                                                        *)
(* Every store call of a handler is one atomic step; the handlers          *)
(* themselves are not atomic, so submissions and workers interleave        *)
(* between any two store calls.                                            *)
(*                                                                         *)
(* Inputs: a batch item is (url, source, priority).  "category" is carried *)
(* through the code exactly like "source" and is folded into it.  The      *)
(* priority of an item is its numeric value (the score ZADD stores).       *)
(***************************************************************************)
EXTENDS Naturals, Sequences, FiniteSets

VARIABLES articles, jobs, queue, arrivals, dlq, coord, worker, resp, nsub, nitems, nfail

vars == <<articles, jobs, queue, arrivals, dlq, coord, worker, resp, nsub, nitems, nfail>>

\* the counters that bound the environment: submissions, items, failed fetches
env == <<nsub, nitems, nfail>>

---------------------------------------------------------------------------
(* Bounds of the model *)

NumUrls == 2
NumSources == 1
NumPriorities == 2
MaxBatch == 2
MaxSubmissions == 2
MaxItems == 2
MaxFetchFailures == 3
NumCoordinators == 2
NumWorkers == 2

(* Program constant: Consumer.max_retries *)
max_retries == 3

Urls == 1..NumUrls
Sources == 1..NumSources
Priorities == 1..NumPriorities
Coordinators == 1..NumCoordinators
Workers == 1..NumWorkers

Items == [url : Urls, source : Sources, priority : Priorities]

Batches == UNION {[1..n -> Items] : n \in 1..MaxBatch}

None == "None"

---------------------------------------------------------------------------
(* ArticleRepository *)

\* Article(...) defaults: status PENDING, no title/content/error, reference_count 0
NewArticle(url) ==
    [url |-> url, status |-> "PENDING", title |-> None, content |-> None,
     error_message |-> None, reference_count |-> 0]

\* get_by_url: the id of the document with that url, 0 when there is none
GetByUrl(as, url) ==
    IF \E a \in 1..Len(as) : as[a].url = url
    THEN CHOOSE a \in 1..Len(as) : as[a].url = url /\ \A b \in 1..(a-1) : as[b].url # url
    ELSE 0

\* a collection without the unique index: no insert is rejected
UrlTakenNever(as, url) == FALSE

\* the unique index on "url": insert_one raises DuplicateKeyError
UrlTaken(as, url) == \E a \in 1..Len(as) : as[a].url = url

\* create: insert_one of a fresh document; the new id is the last position
ArticleCreate(as, url) == Append(as, NewArticle(url))

\* an update_status that writes the status and drops the other fields
ArticleUpdateStatusOnly(as, id, status, title, content, error_message) ==
    [as EXCEPT ![id].status = status]

\* an update_status that also counts a reference
ArticleUpdateStatusCounting(as, id, status, title, content, error_message) ==
    [as EXCEPT ![id] = [@ EXCEPT !.status = status, !.reference_count = @ + 1]]

\* update_status: $set status (+ title, content, error_message when given)
ArticleUpdateStatus(as, id, status, title, content, error_message) ==
    [as EXCEPT ![id] =
        [@ EXCEPT !.status = status,
                  !.title = IF title # None THEN title ELSE @,
                  !.content = IF content # None THEN content ELSE @,
                  !.error_message = IF error_message # None THEN error_message ELSE @]]

\* a count written back from a stale read of a record not yet reused
IncrementReferenceCountStale(as, id) == [as EXCEPT ![id].reference_count = 1]

\* a reuse that leaves reference_count as it was
IncrementReferenceCountDropped(as, id) == as

\* increment_reference_count: $inc reference_count by 1
IncrementReferenceCount(as, id) ==
    [as EXCEPT ![id].reference_count = @ + 1]

---------------------------------------------------------------------------
(* JobRepository *)

\* Job(...) defaults: status PENDING, counters 0, completed_at None (0)
NewJob(total, new, cached, ids) ==
    [status |-> "PENDING", total_articles |-> total, new_articles |-> new,
     cached_articles |-> cached, completed_count |-> 0, failed_count |-> 0,
     article_ids |-> ids, completed_at |-> 0]

\* a create whose insert has not reached the ledger
JobCreateDropped(js, total, new, cached, ids) == js

\* create: insert_one
JobCreate(js, total, new, cached, ids) == Append(js, NewJob(total, new, cached, ids))

\* update_status: $set status; completed_at is stamped when status is COMPLETED.
\* completed_at is the number of the stamp (0: never stamped): every write
\* stores a later datetime.utcnow() than the one before.
JobUpdateStatus(js, j, status) ==
    [js EXCEPT ![j] =
        [@ EXCEPT !.status = status,
                  !.completed_at = IF status = "COMPLETED" THEN @ + 1 ELSE @]]

\* an increment written from a stale read of a fresh job: the counter is set to 1
IncrementCompletedStale(js, j) == [js EXCEPT ![j].completed_count = 1]

\* increment_completed: $inc completed_count by 1
IncrementCompleted(js, j) == [js EXCEPT ![j].completed_count = @ + 1]

\* a failure counted twice
IncrementFailedTwice(js, j) == [js EXCEPT ![j].failed_count = @ + 2]

\* increment_failed: $inc failed_count by 1
IncrementFailed(js, j) == [js EXCEPT ![j].failed_count = @ + 1]

\* check_and_complete_job, the test on the job document it has read
AllProcessed(job) == job.completed_count + job.failed_count >= job.total_articles

\* Job.pending_count
PendingCount(job) == job.total_articles - job.completed_count - job.failed_count

---------------------------------------------------------------------------
(* The Redis sorted set "articles" and the list "failed_articles" *)

\* a task message that starts with one retry already counted
NewTaskRetried(job_id, article_id, item) ==
    [job_id |-> job_id, article_id |-> article_id, url |-> item.url,
     source |-> item.source, priority |-> item.priority, retry_count |-> 1]

\* publish_article: the task message
NewTask(job_id, article_id, item) ==
    [job_id |-> job_id, article_id |-> article_id, url |-> item.url,
     source |-> item.source, priority |-> item.priority, retry_count |-> 0]

\* an add that keeps the resident entry of the member beside the new one
ZAddKeepBoth(q, msg, score) == q \cup {[msg |-> msg, score |-> score]}

\* ZADD: members are unique, adding a resident member rewrites its score
ZAdd(q, msg, score) ==
    {e \in q : e.msg # msg} \cup {[msg |-> msg, score |-> score]}

\* a member order that puts the redelivered messages last
MsgKeyRetryFirst(m) == <<m.retry_count, m.job_id, m.article_id, m.url, m.source, m.priority>>

\* Members of equal score are ordered by their bytes: the JSON text of the
\* task, whose keys come in the order job_id, article_id, url, source,
\* category, priority, retry_count.
MsgKey(m) == <<m.job_id, m.article_id, m.url, m.source, m.priority, m.retry_count>>

RECURSIVE SeqLess(_, _, _)
SeqLess(s, t, i) ==
    IF i > Len(s) THEN FALSE
    ELSE IF s[i] < t[i] THEN TRUE
    ELSE IF s[i] > t[i] THEN FALSE
    ELSE SeqLess(s, t, i + 1)

EntryLess(e, f) ==
    \/ e.score < f.score
    \/ e.score = f.score /\ SeqLess(MsgKey(e.msg), MsgKey(f.msg), 1)

\* a pop from the other end: the entry of highest score
ZMax(q) == CHOOSE e \in q : \A f \in q \ {e} : EntryLess(f, e)

\* BZPOPMIN: the entry of lowest score
ZMin(q) == CHOOSE e \in q : \A f \in q \ {e} : EntryLess(e, f)

\* The order in which the resident members were added (a record of the past
\* kept beside the sorted set, which itself does not store it): ZADD of a
\* member that is not resident puts it last, ZADD of a resident member
\* leaves it where it is, BZPOPMIN takes the popped member out.
Arrive(seq, msg) ==
    IF \E k \in 1..Len(seq) : seq[k] = msg THEN seq ELSE Append(seq, msg)

Depart(seq, msg) == SelectSeq(seq, LAMBDA m : m # msg)

\* an append that loses the record
LPushLost(list, v) == list

\* LPUSH: the new record becomes the head of the list
LPush(l, rec) == <<rec>> \o l

\* handle_failure: backoff_time = 2 ** retry_count
RECURSIVE Backoff(_)
Backoff(n) == IF n = 0 THEN 1 ELSE 2 * Backoff(n - 1)

---------------------------------------------------------------------------
(* Initial state: nobody running, and either empty stores, or the stores  *)
(* as an earlier, finished submission of url 1 leaves them (the record     *)
(* SCRAPED and its job COMPLETED), or those and what a second job leaves   *)
(* whose task for url 2 was dead-lettered (the record FAILED, the job      *)
(* COMPLETED with one failure, one dead-letter record)                     *)

IdleCoord ==
    [pc |-> "idle", batch |-> <<>>, i |-> 0, existing |-> 0, seen |-> None,
     existing_articles_count |-> 0, new_articles_count |-> 0,
     linked_article_ids |-> <<>>, articles_to_publish |-> <<>>,
     job_id |-> 0, req |-> 0]

IdleWorker ==
    [pc |-> "idle", task |-> None, score |-> 0, error |-> None, backoff_time |-> 0]

ScrapedBefore ==
    [NewArticle(1) EXCEPT !.status = "SCRAPED", !.title = "title", !.content = "content"]

FinishedBefore ==
    [NewJob(1, 1, 0, <<1>>) EXCEPT !.status = "COMPLETED", !.completed_count = 1, !.completed_at = 1]

\* url 2 as an earlier job left it after its task was dead-lettered
FailedBefore ==
    [NewArticle(2) EXCEPT !.status = "FAILED", !.error_message = "Request timeout"]

GaveUpBefore ==
    [NewJob(1, 1, 0, <<2>>) EXCEPT !.status = "COMPLETED", !.failed_count = 1, !.completed_at = 1]

DeadBefore ==
    [task |-> [NewTask(2, 2, [url |-> 2, source |-> 1, priority |-> 1]) EXCEPT !.retry_count = max_retries],
     failed_at |-> "utcnow", final_error |-> "Request timeout", worker_id |-> 1]

Init ==
    /\ \/ articles = <<>> /\ jobs = <<>> /\ dlq = <<>>
       \/ articles = <<ScrapedBefore>> /\ jobs = <<FinishedBefore>> /\ dlq = <<>>
       \/ /\ articles = <<ScrapedBefore, FailedBefore>>
          /\ jobs = <<FinishedBefore, GaveUpBefore>>
          /\ dlq = <<DeadBefore>>
    /\ queue = {}
    /\ arrivals = <<>>
    /\ resp = <<>>
    /\ coord = [c \in Coordinators |-> IdleCoord]
    /\ worker = [w \in Workers |-> IdleWorker]
    /\ nsub = 0
    /\ nitems = 0
    /\ nfail = 0


---------------------------------------------------------------------------
(* Submission coordinator: publish_all, one step per store call *)

\* publish_all: the locals at entry; a batch arrives. resp[k] is the answer to
\* the k-th request: http 0 while it is being handled, 201 with the
\* JobSubmitResponse, 500 when an exception left publish_all
Submit(c, batch) ==
    /\ coord[c].pc = "idle"
    /\ \A d \in 1..(c - 1) : coord[d].pc # "idle"
    /\ nsub < MaxSubmissions
    /\ nitems + Len(batch) <= MaxItems
    /\ nsub' = nsub + 1
    /\ nitems' = nitems + Len(batch)
    /\ coord' = [coord EXCEPT ![c] =
                    [IdleCoord EXCEPT !.pc = "lookup", !.batch = batch, !.i = 1, !.req = nsub + 1]]
    /\ resp' = Append(resp, [http |-> 0])
    /\ UNCHANGED <<articles, jobs, queue, arrivals, dlq, worker, nfail>>

\* existing_article = await article_repo.get_by_url(url)
Lookup(c) ==
    LET me == coord[c]
        id == GetByUrl(articles, me.batch[me.i].url)
    IN  /\ me.pc = "lookup"
        /\ coord' = [coord EXCEPT ![c] =
                        [me EXCEPT !.pc = "classify", !.existing = id,
                                   !.seen = IF id = 0 THEN None ELSE articles[id].status]]
        /\ UNCHANGED <<articles, jobs, queue, arrivals, dlq, worker, resp, env>>

\* if existing_article and existing_article.status == ArticleStatus.SCRAPED
IsCached(existing, seen) == existing # 0 /\ seen = "SCRAPED"

\* the end of one pass of "for article in data"
NextItem(me) ==
    IF me.i = Len(me.batch) THEN [me EXCEPT !.pc = "create_job", !.i = 0, !.existing = 0, !.seen = None]
    ELSE [me EXCEPT !.pc = "lookup", !.i = @ + 1, !.existing = 0, !.seen = None]

\* bookkeeping that forgets to link the record to the job
NeedsScrapingUnlinked(me, article_id) ==
    [me EXCEPT !.new_articles_count = @ + 1,
               !.articles_to_publish = Append(@, [article_id |-> article_id, item |-> me.batch[me.i]])]

\* the else branch's bookkeeping: count as new, link, prepare for publishing
NeedsScraping(me, article_id) ==
    [me EXCEPT !.new_articles_count = @ + 1,
               !.linked_article_ids = Append(@, article_id),
               !.articles_to_publish = Append(@, [article_id |-> article_id, item |-> me.batch[me.i]])]

\* CACHED: count, link, increment_reference_count
ClassifyCached(c) ==
    LET me == coord[c]
    IN  /\ me.pc = "classify"
        /\ IsCached(me.existing, me.seen)
        /\ articles' = IncrementReferenceCount(articles, me.existing)
        /\ coord' = [coord EXCEPT ![c] =
                        NextItem([me EXCEPT !.existing_articles_count = @ + 1,
                                            !.linked_article_ids = Append(@, me.existing)])]
        /\ UNCHANGED <<jobs, queue, arrivals, dlq, worker, resp, env>>

\* NEW: article_repo.create inserts the document
ClassifyNew(c) ==
    LET me == coord[c]
    IN  /\ me.pc = "classify"
        /\ ~IsCached(me.existing, me.seen)
        /\ me.existing = 0
        /\ ~UrlTaken(articles, me.batch[me.i].url)
        /\ articles' = ArticleCreate(articles, me.batch[me.i].url)
        /\ coord' = [coord EXCEPT ![c] = NextItem(NeedsScraping(me, Len(articles) + 1))]
        /\ UNCHANGED <<jobs, queue, arrivals, dlq, worker, resp, env>>

\* NEW, but the url was inserted since the lookup: create raises ValueError,
\* nothing in publish_all or submit_job catches it, the request ends without
\* a summary
ClassifyNewDuplicate(c) ==
    LET me == coord[c]
    IN  /\ me.pc = "classify"
        /\ ~IsCached(me.existing, me.seen)
        /\ me.existing = 0
        /\ UrlTaken(articles, me.batch[me.i].url)
        /\ coord' = [coord EXCEPT ![c] = IdleCoord]
        /\ resp' = [resp EXCEPT ![me.req] = [http |-> 500, error |-> "ValueError"]]
        /\ UNCHANGED <<articles, jobs, queue, arrivals, dlq, worker, env>>

\* RETRY: the record exists and is not SCRAPED; update_status(PENDING)
ClassifyRetry(c) ==
    LET me == coord[c]
    IN  /\ me.pc = "classify"
        /\ ~IsCached(me.existing, me.seen)
        /\ me.existing # 0
        /\ articles' = ArticleUpdateStatus(articles, me.existing, "PENDING", None, None, None)
        /\ coord' = [coord EXCEPT ![c] = NextItem(NeedsScraping(me, me.existing))]
        /\ UNCHANGED <<jobs, queue, arrivals, dlq, worker, resp, env>>

\* job_id = await create_job(existing, new, linked, len(data))
CreateJob(c) ==
    LET me == coord[c]
    IN  /\ me.pc = "create_job"
        /\ jobs' = JobCreate(jobs, Len(me.batch), me.new_articles_count,
                             me.existing_articles_count, me.linked_article_ids)
        /\ coord' = [coord EXCEPT ![c] =
                        [me EXCEPT !.job_id = Len(jobs) + 1,
                                   !.i = 1,
                                   !.pc = IF me.articles_to_publish = <<>> THEN "set_status" ELSE "publish"]]
        /\ UNCHANGED <<articles, queue, arrivals, dlq, worker, resp, env>>

\* publish_article(article_data, job_id): one ZADD
Publish(c) ==
    LET me == coord[c]
        p == me.articles_to_publish[me.i]
    IN  /\ me.pc = "publish"
        /\ queue' = ZAdd(queue, NewTask(me.job_id, p.article_id, p.item), p.item.priority)
        /\ arrivals' = Arrive(arrivals, NewTask(me.job_id, p.article_id, p.item))
        /\ coord' = [coord EXCEPT ![c] =
                        IF me.i = Len(me.articles_to_publish)
                        THEN [me EXCEPT !.pc = "set_status", !.i = 0]
                        ELSE [me EXCEPT !.i = @ + 1]]
        /\ UNCHANGED <<articles, jobs, dlq, worker, resp, env>>

\* a final status that is IN_PROGRESS whatever the batch held
FinalStatusInProgress(new_articles_count) == "IN_PROGRESS"

\* the status publish_all writes last and returns
FinalStatus(new_articles_count) ==
    IF new_articles_count = 0 THEN "COMPLETED" ELSE "IN_PROGRESS"

\* job_repo.update_status(job_id, ...) and the JobSubmitResponse
SetStatus(c) ==
    LET me == coord[c]
        st == FinalStatus(me.new_articles_count)
    IN  /\ me.pc = "set_status"
        /\ jobs' = JobUpdateStatus(jobs, me.job_id, st)
        /\ coord' = [coord EXCEPT ![c] = IdleCoord]
        /\ resp' = [resp EXCEPT ![me.req] =
                        [http |-> 201, job_id |-> me.job_id, status |-> st,
                         total_articles |-> Len(me.batch),
                         new_articles |-> me.new_articles_count,
                         cached_articles |-> me.existing_articles_count]]
        /\ UNCHANGED <<articles, queue, arrivals, dlq, worker, env>>

---------------------------------------------------------------------------
(* Worker: Consumer.subscribe / process_article / handle_failure *)

\* result = bzpopmin('articles'); task_data = json.loads(message)
Dequeue(w) ==
    /\ worker[w].pc = "idle"
    /\ \A v \in 1..(w - 1) : worker[v].pc # "idle"
    /\ queue # {}
    /\ LET e == ZMin(queue)
       IN  /\ queue' = queue \ {e}
           /\ arrivals' = Depart(arrivals, e.msg)
           /\ worker' = [worker EXCEPT ![w] =
                            [IdleWorker EXCEPT !.pc = "received", !.task = e.msg, !.score = e.score]]
    /\ UNCHANGED <<articles, jobs, dlq, coord, resp, env>>

\* a handler that lets an empty extraction pass without a retry
EnterFailureSkipsEmpty(me, error_message) ==
    IF error_message = "Failed to extract title or content"
    THEN [me EXCEPT !.pc = "idle", !.task = None, !.score = 0]
    ELSE LET rc == me.task.retry_count + 1
         IN  [me EXCEPT !.task.retry_count = rc,
                        !.error = error_message,
                        !.pc = IF rc >= max_retries THEN "mark_failed" ELSE "backoff",
                        !.backoff_time = IF rc >= max_retries THEN 0 ELSE Backoff(rc)]

\* a failure that counts two attempts
EnterFailureTwice(me, error_message) ==
    LET rc == me.task.retry_count + 2
    IN  [me EXCEPT !.task.retry_count = rc,
                   !.error = error_message,
                   !.pc = IF rc >= max_retries THEN "mark_failed" ELSE "backoff",
                   !.backoff_time = IF rc >= max_retries THEN 0 ELSE Backoff(rc)]

\* handle_failure up to its branch: retry_count += 1, then DLQ or backoff
EnterFailure(me, error_message) ==
    LET rc == me.task.retry_count + 1
    IN  [me EXCEPT !.task.retry_count = rc,
                   !.error = error_message,
                   !.pc = IF rc >= max_retries THEN "mark_failed" ELSE "backoff",
                   !.backoff_time = IF rc >= max_retries THEN 0 ELSE Backoff(rc)]

\* what scrape_article_content may give: a title and a content, one
\* of them missing, or an exception of get_title / get_content
ScrapeResults ==
    { [raised |-> FALSE, title |-> "title", content |-> "content"],
      [raised |-> FALSE, title |-> None, content |-> "content"],
      [raised |-> FALSE, title |-> "title", content |-> None],
      [raised |-> TRUE, title |-> None, content |-> None] }

\* if not title or not content: raise
ScrapeFailed(r) == r.raised \/ r.title = None \/ r.content = None

ScrapeError(r) == IF r.raised THEN "Request timeout" ELSE "Failed to extract title or content"

\* Step 1: update_status(article_id, SCRAPING); Step 2: the scrape, which
\* touches no store, and what process_article does with its result
Scrape(w) ==
    LET me == worker[w]
    IN  /\ me.pc = "received"
        /\ articles' = ArticleUpdateStatus(articles, me.task.article_id, "SCRAPING", None, None, None)
        /\ \E r \in ScrapeResults :
              /\ ScrapeFailed(r) => nfail < MaxFetchFailures
              /\ nfail' = IF ScrapeFailed(r) THEN nfail + 1 ELSE nfail
              /\ worker' = [worker EXCEPT ![w] =
                               IF ScrapeFailed(r) THEN EnterFailure(me, ScrapeError(r))
                               ELSE [me EXCEPT !.pc = "update_scraped"]]
        /\ UNCHANGED <<jobs, queue, arrivals, dlq, coord, resp, nsub, nitems>>

\* Step 3: update_status(article_id, SCRAPED, title, content)
UpdateScraped(w) ==
    LET me == worker[w]
    IN  /\ me.pc = "update_scraped"
        /\ articles' = ArticleUpdateStatus(articles, me.task.article_id, "SCRAPED", "title", "content", None)
        /\ worker' = [worker EXCEPT ![w].pc = "inc_completed"]
        /\ UNCHANGED <<jobs, queue, arrivals, dlq, coord, resp, env>>

\* Step 4: job_repo.increment_completed(job_id)
IncCompleted(w) ==
    LET me == worker[w]
    IN  /\ me.pc = "inc_completed"
        /\ jobs' = IncrementCompleted(jobs, me.task.job_id)
        /\ worker' = [worker EXCEPT ![w].pc = "check_read"]
        /\ UNCHANGED <<articles, queue, arrivals, dlq, coord, resp, env>>

\* check_and_complete_job: job = await self.get_by_id(job_id), and the test
CheckRead(w) ==
    LET me == worker[w]
        job == jobs[me.task.job_id]
    IN  /\ me.pc = "check_read"
        /\ worker' = [worker EXCEPT ![w] =
                        IF AllProcessed(job) THEN [me EXCEPT !.pc = "check_write"]
                        ELSE IdleWorker]
        /\ UNCHANGED <<articles, jobs, queue, arrivals, dlq, coord, resp, env>>

\* check_and_complete_job: return await self.update_status(job_id, COMPLETED)
CheckWrite(w) ==
    LET me == worker[w]
    IN  /\ me.pc = "check_write"
        /\ jobs' = JobUpdateStatus(jobs, me.task.job_id, "COMPLETED")
        /\ worker' = [worker EXCEPT ![w] = IdleWorker]
        /\ UNCHANGED <<articles, queue, arrivals, dlq, coord, resp, env>>

\* a re-add that takes the retry count for the score
RequeueScoreByRetry(me) == me.task.retry_count

\* handle_failure's priority_score: the score subscribe got from bzpopmin
RequeueScore(me) == me.score

\* handle_failure, retry branch: time.sleep(backoff_time), then ZADD of the
\* task with its raised retry_count at the score it was dequeued with
Requeue(w) ==
    LET me == worker[w]
    IN  /\ me.pc = "backoff"
        /\ queue' = ZAdd(queue, me.task, RequeueScore(me))
        /\ arrivals' = Arrive(arrivals, me.task)
        /\ worker' = [worker EXCEPT ![w] = IdleWorker]
        /\ UNCHANGED <<articles, jobs, dlq, coord, resp, env>>

\* handle_failure, DLQ branch: update_status(article_id, FAILED, error_message)
MarkFailed(w) ==
    LET me == worker[w]
    IN  /\ me.pc = "mark_failed"
        /\ articles' = ArticleUpdateStatus(articles, me.task.article_id, "FAILED", None, None, me.error)
        /\ worker' = [worker EXCEPT ![w].pc = "inc_failed"]
        /\ UNCHANGED <<jobs, queue, arrivals, dlq, coord, resp, env>>

\* handle_failure, DLQ branch: job_repo.increment_failed(job_id)
IncFailed(w) ==
    LET me == worker[w]
    IN  /\ me.pc = "inc_failed"
        /\ jobs' = IncrementFailed(jobs, me.task.job_id)
        /\ worker' = [worker EXCEPT ![w].pc = "dlq_push"]
        /\ UNCHANGED <<articles, queue, arrivals, dlq, coord, resp, env>>

\* a dead-letter record that does not say which worker gave up
DlqDataAnonymous(me, w) ==
    [task |-> me.task, failed_at |-> "utcnow", final_error |-> me.error, worker_id |-> 0]

\* dlq_data = {**task_data, 'failed_at', 'final_error', 'worker_id'}
DlqData(me, w) ==
    [task |-> me.task, failed_at |-> "utcnow", final_error |-> me.error, worker_id |-> w]

\* handle_failure, DLQ branch: lpush("failed_articles", dlq_data)
DlqPush(w) ==
    LET me == worker[w]
    IN  /\ me.pc = "dlq_push"
        /\ dlq' = LPush(dlq, DlqData(me, w))
        /\ worker' = [worker EXCEPT ![w].pc = "check_read"]
        /\ UNCHANGED <<articles, jobs, queue, arrivals, coord, resp, env>>

---------------------------------------------------------------------------

Next ==
    \/ \E c \in Coordinators, b \in Batches : Submit(c, b)
    \/ \E c \in Coordinators : Lookup(c)
    \/ \E c \in Coordinators : ClassifyCached(c)
    \/ \E c \in Coordinators : ClassifyNew(c)
    \/ \E c \in Coordinators : ClassifyNewDuplicate(c)
    \/ \E c \in Coordinators : ClassifyRetry(c)
    \/ \E c \in Coordinators : CreateJob(c)
    \/ \E c \in Coordinators : Publish(c)
    \/ \E c \in Coordinators : SetStatus(c)
    \/ \E w \in Workers : Dequeue(w)
    \/ \E w \in Workers : Scrape(w)
    \/ \E w \in Workers : UpdateScraped(w)
    \/ \E w \in Workers : IncCompleted(w)
    \/ \E w \in Workers : CheckRead(w)
    \/ \E w \in Workers : CheckWrite(w)
    \/ \E w \in Workers : Requeue(w)
    \/ \E w \in Workers : MarkFailed(w)
    \/ \E w \in Workers : IncFailed(w)
    \/ \E w \in Workers : DlqPush(w)

Spec == Init /\ [][Next]_vars

---------------------------------------------------------------------------
(* Properties *)

JobIds == 1..Len(jobs)

\* nothing is being handled and nothing is queued
Quiescent ==
    /\ \A c \in Coordinators : coord[c].pc = "idle"
    /\ \A w \in Workers : worker[w].pc = "idle"
    /\ queue = {}

C2_EveryJobCompletes ==
    Quiescent => \A j \in JobIds : jobs[j].status = "COMPLETED"

\* C3: a job whose status is COMPLETED has
\* completed_count + failed_count = total_articles.
C3_CompletedOnlyAtEquality ==
    \A j \in JobIds :
        jobs[j].status = "COMPLETED" =>
            jobs[j].completed_count + jobs[j].failed_count = jobs[j].total_articles

\* C4: the write that sets status COMPLETED and stamps completed_at is
\* performed at most once per job.
C4_CompletedWrittenOnce ==
    \A j \in JobIds : jobs[j].completed_at <= 1

\* worker w takes the step of its handler that leaves position pc
Leaves(w, pc) == worker[w].pc = pc /\ worker'[w] # worker[w]

\* C5: two workers run increment_completed then check_and_complete_job for
\* the two tasks of a job with total_articles = 2: a check call made while
\* the other worker is between its increment and the end of its check reads
\* a ledger with completed_count = 2, and a check call performs the
\* COMPLETED transition only when no call has performed it before.
C5_OneTransitionBothSeeTwo ==
    [][\A w \in Workers :
          /\ ( /\ Leaves(w, "check_read")
               /\ worker[w].error = None
               /\ jobs[worker[w].task.job_id].total_articles = 2
               /\ jobs[worker[w].task.job_id].new_articles = 2
               /\ \E v \in Workers \ {w} :
                     /\ worker[v].pc \in {"inc_completed", "check_read", "check_write"}
                     /\ worker[v].error = None
                     /\ worker[v].task.job_id = worker[w].task.job_id )
             => jobs[worker[w].task.job_id].completed_count = 2
          /\ ( /\ Leaves(w, "check_write")
               /\ worker[w].error = None
               /\ jobs[worker[w].task.job_id].total_articles = 2
               /\ jobs[worker[w].task.job_id].new_articles = 2 )
             => jobs[worker[w].task.job_id].completed_at = 0
      ]_vars

\* the number of workers whose step is the given increment on job j
Invocations(j, pc) ==
    Cardinality({w \in Workers : Leaves(w, pc) /\ worker[w].task.job_id = j})

\* C6: no lost updates: in every step each job's completed_count grows by
\* exactly the number of increment_completed calls made on it in that step
\* and its failed_count by exactly the number of increment_failed calls, so
\* after c and f calls the counters have grown by exactly c and f.
C6_NoLostUpdates ==
    [][\A j \in JobIds :
          /\ jobs'[j].completed_count = jobs[j].completed_count + Invocations(j, "inc_completed")
          /\ jobs'[j].failed_count = jobs[j].failed_count + Invocations(j, "inc_failed")
      ]_vars

\* C6 witness: both counters of one job have been incremented, by
\* different workers' calls.
C6_Witness ==
    \E j \in JobIds : jobs[j].completed_count = 1 /\ jobs[j].failed_count = 1

\* coordinator c takes the step of publish_all that leaves position pc
CoordLeaves(c, pc) == coord[c].pc = pc /\ coord'[c] # coord[c]

\* C7: every created job has new_articles + cached_articles = total_articles
\* = batch size, and article_ids holds one id per batch item, in batch order.
C7_JobCountsMatchBatch ==
    /\ \A j \in JobIds :
          /\ jobs[j].new_articles + jobs[j].cached_articles = jobs[j].total_articles
          /\ Len(jobs[j].article_ids) = jobs[j].total_articles
    /\ \A c \in Coordinators :
          coord[c].job_id # 0 =>
              /\ jobs[coord[c].job_id].total_articles = Len(coord[c].batch)
              /\ \A i \in 1..Len(coord[c].batch) :
                    articles[jobs[coord[c].job_id].article_ids[i]].url = coord[c].batch[i].url

\* C7 witness: a job was created for a batch of one cached and one new url.
C7_Witness ==
    \E c \in Coordinators :
        /\ coord[c].job_id # 0
        /\ Len(coord[c].batch) = 2
        /\ jobs[coord[c].job_id].cached_articles = 1
        /\ jobs[coord[c].job_id].new_articles = 1

\* C8: a batch item whose record the lookup finds SCRAPED is handled as
\* cached: the step adds 1 to the record's reference_count and changes
\* nothing else in the content cache (status, title, body stay), adds no task
\* to the queue and schedules none for publishing, and counts the item as
\* cached.
C8_ScrapedIsCached ==
    [][\A c \in Coordinators :
          /\ ( /\ CoordLeaves(c, "lookup")
               /\ \E a \in 1..Len(articles) :
                     /\ articles[a].url = coord[c].batch[coord[c].i].url
                     /\ articles[a].status = "SCRAPED" )
             => /\ coord'[c].pc = "classify"
                /\ coord'[c].seen = "SCRAPED"
                /\ articles[coord'[c].existing].url = coord[c].batch[coord[c].i].url
          /\ ( CoordLeaves(c, "classify") /\ coord[c].seen = "SCRAPED" )
             => /\ articles' = [articles EXCEPT ![coord[c].existing].reference_count = @ + 1]
                /\ queue' = queue
                /\ coord'[c].articles_to_publish = coord[c].articles_to_publish
                /\ coord'[c].new_articles_count = coord[c].new_articles_count
                /\ coord'[c].existing_articles_count = coord[c].existing_articles_count + 1
                /\ coord'[c].linked_article_ids = Append(coord[c].linked_article_ids, coord[c].existing)
      ]_vars

\* C8 witness: one record has been reused twice and no task was enqueued.
C8_Witness ==
    /\ \E a \in 1..Len(articles) :
          articles[a].status = "SCRAPED" /\ articles[a].reference_count = 2
    /\ queue = {}
    /\ Len(jobs) = 2

\* the task message publish_article builds for entry p of articles_to_publish
PublishedTask(job_id, p) ==
    [job_id |-> job_id, article_id |-> p.article_id, url |-> p.item.url,
     source |-> p.item.source, priority |-> p.item.priority, retry_count |-> 0]

GivingUp(w) ==
    \/ worker[w].pc \in {"mark_failed", "inc_failed", "dlq_push"}
    \/ worker[w].pc \in {"check_read", "check_write"} /\ worker[w].error # None

\* The parts of C10 about the dead-letter store and the queue: a task is in
\* the DLQ branch exactly when its retry_count has reached max_retries; the
\* branch appends one record, holding that task, and nothing else ever
\* changes the dead-letter store; no step of the branch touches the queue,
\* and no task with retry_count >= max_retries is ever in the queue.
DeadLetteredOnce ==
    /\ \A w \in Workers :
          /\ worker[w].pc = "backoff" => worker[w].task.retry_count < max_retries
          /\ GivingUp(w) => worker[w].task.retry_count = max_retries
          /\ Leaves(w, "mark_failed") => worker'[w].pc = "inc_failed"
          /\ Leaves(w, "inc_failed") => worker'[w].pc = "dlq_push"
          /\ Leaves(w, "dlq_push") =>
                /\ worker'[w].pc = "check_read"
                /\ Len(dlq') = Len(dlq) + 1
                /\ dlq'[1].task = worker[w].task
                /\ \A k \in 1..Len(dlq) : dlq'[k + 1] = dlq[k]
          /\ (GivingUp(w) /\ worker'[w] # worker[w]) =>
                /\ queue' = queue
                /\ worker'[w].pc = "idle" \/ (GivingUp(w))'
    /\ dlq' # dlq => \E w \in Workers : Leaves(w, "dlq_push")
    /\ \A e \in queue : e.msg.retry_count < max_retries
    /\ \A k \in 1..Len(dlq) : dlq[k].task.retry_count = max_retries

\* C10: a task whose fetch fails max_retries times is dead-lettered exactly
\* once, with retry_count = max_retries, and is not re-enqueued; the worker
\* writes its content record FAILED before it appends the dead-letter
\* record, and the record ends FAILED: it leaves FAILED only when a later
\* submission finds it FAILED and resets it to PENDING.
C10_DeadLetteredAndEndsFailed ==
    [][/\ DeadLetteredOnce
       /\ \A w \in Workers :
             Leaves(w, "mark_failed") =>
                 articles'[worker[w].task.article_id].status = "FAILED"
       /\ \A a \in 1..Len(articles) :
             (articles[a].status = "FAILED" /\ articles'[a].status # "FAILED") =>
                 \E c \in Coordinators :
                     /\ CoordLeaves(c, "classify")
                     /\ coord[c].existing = a
                     /\ coord[c].seen = "FAILED"
                     /\ articles'[a].status = "PENDING"
      ]_vars

\* worker w holds a task whose fetch has succeeded
Succeeded(w) ==
    /\ worker[w].pc \in {"update_scraped", "inc_completed", "check_read", "check_write"}
    /\ worker[w].error = None

\* C11: a task whose fetch succeeds is never dead-lettered (its worker never
\* enters handle_failure and never touches the dead-letter store), its worker
\* writes the record SCRAPED with title and content, and the record ends
\* SCRAPED: a record that is SCRAPED with title and content set never
\* changes status again, whatever other tasks for it are in flight.
C11_SucceededEndsScraped ==
    [][/\ \A w \in Workers :
             /\ (Succeeded(w) /\ worker'[w] # worker[w]) =>
                   /\ dlq' = dlq
                   /\ queue' = queue
                   /\ worker'[w].pc = "idle" \/ (Succeeded(w))'
             /\ Leaves(w, "update_scraped") =>
                   LET a == articles'[worker[w].task.article_id]
                   IN  a.status = "SCRAPED" /\ a.title # None /\ a.content # None
       /\ \A a \in 1..Len(articles) :
             (articles[a].status = "SCRAPED" /\ articles[a].title # None /\ articles[a].content # None)
                 => articles'[a].status = "SCRAPED"
      ]_vars

\* C12: a job none of whose items was found cached (every url of the batch
\* needed a fetch) is answered with new_articles = batch size,
\* cached_articles = 0 and status IN_PROGRESS; and once all of its tasks
\* have succeeded and the system is at rest, the job is COMPLETED with
\* completed = n, failed = 0 and pending = 0.
C12_AllNewBatchCompletes ==
    /\ \A k \in 1..Len(resp) :
          (resp[k].http = 201 /\ jobs[resp[k].job_id].cached_articles = 0)
          => /\ resp[k].new_articles = resp[k].total_articles
             /\ resp[k].cached_articles = 0
             /\ resp[k].status = "IN_PROGRESS"
    /\ \A j \in JobIds :
          ( /\ Quiescent
            /\ jobs[j].new_articles = jobs[j].total_articles
            /\ jobs[j].completed_count = jobs[j].total_articles )
          => /\ jobs[j].status = "COMPLETED"
             /\ jobs[j].failed_count = 0
             /\ PendingCount(jobs[j]) = 0

\* C13: a submission all of whose items were found SCRAPED answers with
\* new_articles = 0, cached_articles = batch size and status COMPLETED, has
\* written that status to the job when it returns, and enqueues nothing:
\* it has nothing scheduled for publishing, goes from create_job straight to
\* the final status, and the only step of a submission that changes the
\* queue is a publish step.
C13_AllCachedCompletedAtReturn ==
    [][\A c \in Coordinators :
          /\ ( CoordLeaves(c, "set_status")
               /\ coord[c].existing_articles_count = Len(coord[c].batch) )
             => /\ resp'[coord[c].req] =
                      [http |-> 201, job_id |-> coord[c].job_id, status |-> "COMPLETED",
                       total_articles |-> Len(coord[c].batch), new_articles |-> 0,
                       cached_articles |-> Len(coord[c].batch)]
                /\ jobs'[coord[c].job_id].status = "COMPLETED"
                /\ queue' = queue
          /\ ( CoordLeaves(c, "create_job")
               /\ coord[c].existing_articles_count = Len(coord[c].batch) )
             => /\ coord[c].articles_to_publish = <<>>
                /\ coord'[c].pc = "set_status"
                /\ queue' = queue
          /\ ( coord'[c] # coord[c] /\ coord[c].pc # "publish" ) => queue' = queue
      ]_vars

\* C13 witness: a request for a batch of two cached items has been answered
\* COMPLETED and the queue is empty.
C13_Witness ==
    /\ \E k \in 1..Len(resp) :
          /\ resp[k].http = 201
          /\ resp[k].cached_articles = 2
          /\ resp[k].status = "COMPLETED"
    /\ queue = {}

\* C14: every task resident in the queue, held by a worker or dead-lettered
\* carries the job_id of a job record that exists in the ledger: the job is
\* created before any of its tasks is enqueued.
C14_TaskJobExists ==
    /\ \A e \in queue : e.msg.job_id \in JobIds
    /\ \A w \in Workers : worker[w].pc # "idle" => worker[w].task.job_id \in JobIds
    /\ \A k \in 1..Len(dlq) : dlq[k].task.job_id \in JobIds
    /\ \A c \in Coordinators : coord[c].pc = "publish" => coord[c].job_id \in JobIds

\* C14 witness: a task of the newest job is held by a worker while the
\* submission that created the job is still publishing.
C14_Witness ==
    \E w \in Workers, c \in Coordinators :
        /\ worker[w].pc # "idle"
        /\ coord[c].pc = "publish"
        /\ worker[w].task.job_id = coord[c].job_id
        /\ worker[w].task.job_id = Len(jobs)

\* C15: no request is answered with the constraint violation: every request
\* is either still being handled or has been answered with a job summary,
\* also when two submissions race on the same new url.
C15_RaceLoserGetsSummary ==
    \A k \in 1..Len(resp) : resp[k].http \in {0, 201}

\* C16: no two content records have the same url.
C16_UrlUnique ==
    \A a, b \in 1..Len(articles) : articles[a].url = articles[b].url => a = b

\* C16 witness: two submissions raced on one new url, the second create was
\* rejected, and another url has a record too.
C16_Witness ==
    /\ \E k \in 1..Len(resp) : resp[k].http = 500
    /\ Len(articles) = 2

\* the place of a resident member in the order of arrival
Position(seq, msg) == CHOOSE k \in 1..Len(seq) : seq[k] = msg

\* C17 as stated: every dequeue returns a resident task of minimal score,
\* and among the resident tasks of that score the one that arrived first.
C17_MinScoreThenArrival ==
    [][\A w \in Workers :
          Leaves(w, "idle") =>
              LET t == worker'[w].task
                  sc == worker'[w].score
              IN  /\ [msg |-> t, score |-> sc] \in queue
                  /\ \A f \in queue :
                        /\ sc <= f.score
                        /\ f.score = sc => Position(arrivals, t) <= Position(arrivals, f.msg)
      ]_vars

\* C17, amended: every dequeue returns a resident task of minimal score,
\* and among the resident tasks of that score the one whose message text is
\* least (the sorted set's own order of members), whatever their order of
\* arrival.
C17_MinScoreThenMemberOrder ==
    [][\A w \in Workers :
          Leaves(w, "idle") =>
              LET t == worker'[w].task
                  sc == worker'[w].score
              IN  /\ [msg |-> t, score |-> sc] \in queue
                  /\ [msg |-> t, score |-> sc] \notin queue'
                  /\ \A f \in queue :
                        /\ sc <= f.score
                        /\ (f.score = sc /\ f.msg # t) => SeqLess(MsgKey(t), MsgKey(f.msg), 1)
      ]_vars

\* C17 witness: a worker has just dequeued a redelivered task while a task
\* of the same score that arrived before the redelivery is still resident.
C17_Witness ==
    \E w \in Workers, f \in queue :
        /\ worker[w].pc = "received"
        /\ worker[w].task.retry_count > 0
        /\ f.score = worker[w].score
        /\ f.msg.retry_count = 0
        /\ f.msg.job_id > worker[w].task.job_id

---------------------------------------------------------------------------
(* The sorted set on its own: ZADD and BZPOPMIN applied to any task message *)
(* at any score, in any order                                               *)

MaxScore == 3

Scores == 1..MaxScore

\* the messages publish_article builds for one job
QueueTasks ==
    {NewTask(1, it.url, it) : it \in Items}

\* redis_client.zadd('articles', {message: score})
Enqueue(msg, score) ==
    /\ queue' = ZAdd(queue, msg, score)
    /\ arrivals' = Arrive(arrivals, msg)
    /\ UNCHANGED <<articles, jobs, dlq, coord, worker, resp, env>>

\* redis_client.bzpopmin('articles')
Pop ==
    /\ queue # {}
    /\ queue' = queue \ {ZMin(queue)}
    /\ arrivals' = Depart(arrivals, ZMin(queue).msg)
    /\ UNCHANGED <<articles, jobs, dlq, coord, worker, resp, env>>

NextQueue ==
    \/ \E msg \in QueueTasks, score \in Scores : Enqueue(msg, score)
    \/ Pop

SpecQueue == Init /\ [][NextQueue]_vars

\* the messages in the order successive BZPOPMIN calls return them
RECURSIVE DequeueOrder(_)
DequeueOrder(q) ==
    IF q = {} THEN <<>> ELSE <<ZMin(q).msg>> \o DequeueOrder(q \ {ZMin(q)})

Without(seq, msg) == SelectSeq(seq, LAMBDA m : m # msg)

\* C18: enqueuing a task message, resident or not, at the same or another
\* score leaves exactly one resident copy of it, at the score given, and the
\* other resident tasks keep their scores and their order of dequeue.
C18_EnqueueIdempotent ==
    [][queue' # queue \/ arrivals' # arrivals =>
          \/ queue # {} /\ queue' = queue \ {ZMin(queue)}
          \/ \E msg \in QueueTasks, score \in Scores :
                /\ queue' = ZAdd(queue, msg, score)
                /\ [msg |-> msg, score |-> score] \in queue'
                /\ Cardinality({e \in queue' : e.msg = msg}) = 1
                /\ Len(SelectSeq(DequeueOrder(queue'), LAMBDA m : m = msg)) = 1
                /\ {e \in queue' : e.msg # msg} = {e \in queue : e.msg # msg}
                /\ Without(DequeueOrder(queue'), msg) = Without(DequeueOrder(queue), msg)
      ]_vars

\* C18 witness: a resident task has been enqueued again at another score
\* (it arrived first, yet it now has the highest score) beside two others.
C18_Witness ==
    /\ Len(arrivals) = 3
    /\ \E e \in queue :
          /\ e.msg = arrivals[1]
          /\ e.score = MaxScore
          /\ \A f \in queue \ {e} : f.score < MaxScore
    /\ DequeueOrder(queue)[3] = arrivals[1]

---------------------------------------------------------------------------

\* C19: a task is published with retry_count 0; a dequeue hands the worker
\* the message as queued; a failed attempt adds exactly 1 to its retry_count
\* and no other step of the worker changes the task; the retry re-adds the
\* task as the worker holds it; and no message in the queue, in a worker's
\* hands or in the dead-letter store has a retry_count above max_retries.
C19_RetryCountCountsFailures ==
    [][/\ \A c \in Coordinators :
             CoordLeaves(c, "publish") => \A e \in queue' \ queue : e.msg.retry_count = 0
       /\ \A w \in Workers :
             /\ Leaves(w, "idle") =>
                   [msg |-> worker'[w].task, score |-> worker'[w].score] \in queue
             /\ (Leaves(w, "received") /\ worker'[w].pc \in {"backoff", "mark_failed"}) =>
                   worker'[w].task = [worker[w].task EXCEPT !.retry_count = @ + 1]
             /\ (worker[w].pc # "idle" /\ worker'[w].pc \notin {"idle", "backoff", "mark_failed"}) =>
                   worker'[w].task = worker[w].task
             /\ (worker[w].pc \in {"backoff", "mark_failed"} /\ worker'[w].pc # "idle") =>
                   worker'[w].task = worker[w].task
             /\ Leaves(w, "backoff") =>
                   /\ worker[w].task.retry_count > 0
                   /\ \E e \in queue' : e.msg = worker[w].task
                   /\ \A e \in queue' \ queue : e.msg = worker[w].task
             /\ Leaves(w, "dlq_push") => dlq'[1].task = worker[w].task
       /\ \A e \in queue' : e.msg.retry_count <= max_retries
       /\ \A k \in 1..Len(dlq') : dlq'[k].task.retry_count <= max_retries
       /\ \A w \in Workers : worker'[w].pc # "idle" => worker'[w].task.retry_count <= max_retries
      ]_vars

\* C19 witness: a task has been through the queue three times and lies
\* dead-lettered with retry_count = max_retries.
C19_Witness ==
    /\ Len(dlq) = 1
    /\ dlq[1].task.retry_count = max_retries
    /\ nfail = max_retries

\* C20: the worker keeps the score its dequeue returned for as long as it
\* holds the task, the retry re-adds the task at exactly that score, and so
\* every resident entry of a retry chain has the score the task was first
\* published with, its priority.
C20_RetryKeepsScore ==
    [][/\ \A w \in Workers :
             /\ Leaves(w, "idle") =>
                   [msg |-> worker'[w].task, score |-> worker'[w].score] \in queue
             /\ (worker[w].pc # "idle" /\ worker'[w].pc # "idle") =>
                   worker'[w].score = worker[w].score
             /\ Leaves(w, "backoff") =>
                   /\ [msg |-> worker[w].task, score |-> worker[w].score] \in queue'
                   /\ \A e \in queue' : e.msg = worker[w].task => e.score = worker[w].score
       /\ \A e \in queue' : e.score = e.msg.priority
      ]_vars

\* C20 witness: a task published at score 2 is resident again after two
\* failed attempts.
C20_Witness ==
    \E e \in queue : e.msg.retry_count = 2 /\ e.score = 2 /\ e.msg.priority = 2

---------------------------------------------------------------------------
(* Store faults: a MongoDB call raises instead of being applied.  The     *)
(* calls covered are create_job in publish_all and, in the try block of   *)
(* process_article, the cache write of step 3 and the ledger write of     *)
(* step 4.                                                                *)

\* a publish_all that goes on to publish after create_job has raised
AfterCreateJobErrorGoesOn(me) == [me EXCEPT !.pc = "publish", !.i = 1]

\* create_job raises: nothing in publish_all or submit_job catches it
AfterCreateJobError(me) == IdleCoord

\* job_repo.create raises (insert_one fails): no job, the request ends
CreateJobFails(c) ==
    LET me == coord[c]
    IN  /\ me.pc = "create_job"
        /\ coord' = [coord EXCEPT ![c] = AfterCreateJobError(me)]
        /\ resp' = [resp EXCEPT ![me.req] = [http |-> 500, error |-> "PyMongoError"]]
        /\ UNCHANGED <<articles, jobs, queue, arrivals, dlq, worker, env>>

\* a write in the try block of process_article raises: the except clause
\* calls handle_failure(task_data, priority_score, str(e))
WriteFails(w, pc) ==
    LET me == worker[w]
    IN  /\ me.pc = pc
        /\ me.error = None
        /\ nfail < MaxFetchFailures
        /\ nfail' = nfail + 1
        /\ worker' = [worker EXCEPT ![w] = EnterFailure(me, "PyMongoError")]
        /\ UNCHANGED <<articles, jobs, queue, arrivals, dlq, coord, resp, nsub, nitems>>

\* Step 3, update_status(SCRAPED, ...), raises
UpdateScrapedFails(w) == WriteFails(w, "update_scraped")

\* Step 4, increment_completed, raises
IncCompletedFails(w) == WriteFails(w, "inc_completed")

NextFaults ==
    \/ Next
    \/ \E c \in Coordinators : CreateJobFails(c)
    \/ \E w \in Workers : UpdateScrapedFails(w)
    \/ \E w \in Workers : IncCompletedFails(w)

SpecFaults == Init /\ [][NextFaults]_vars

\* C21: when create_job fails (the submission leaves create_job and no job
\* was created), the request is answered with the error, not with a
\* summary, the submission is over with nothing published, and no queued
\* task and no summary ever names a job that does not exist.
C21_NoJobNoSummaryNoTask ==
    [][/\ \A c \in Coordinators :
             (CoordLeaves(c, "create_job") /\ jobs' = jobs) =>
                 /\ resp'[coord[c].req].http = 500
                 /\ coord'[c].pc = "idle"
                 /\ queue' = queue
       /\ \A k \in 1..Len(resp') : resp'[k].http = 201 => resp'[k].job_id \in 1..Len(jobs')
       /\ \A e \in queue' : e.msg.job_id \in 1..Len(jobs')
      ]_vars

\* C21 witness: a request for a batch with a new url was answered with the
\* store error; its record exists, no job does and the queue is empty.
C21_Witness ==
    /\ \E k \in 1..Len(resp) : resp[k].http = 500 /\ resp[k].error = "PyMongoError"
    /\ Len(articles) = 1 /\ articles[1].status = "PENDING"
    /\ jobs = <<>>
    /\ queue = {}

\* C22: a worker whose ledger or cache write raised while it processed a
\* task does not advance that task any further: no later step of it changes
\* the queue (no re-enqueue), a content record (no FAILED), a job's
\* failed_count or the dead-letter store.
C22_FailedWriteStopsTask ==
    [][\A w \in Workers :
          (worker[w].error = "PyMongoError" /\ worker'[w] # worker[w]) =>
              /\ queue' = queue
              /\ articles' = articles
              /\ \A j \in JobIds : jobs'[j].failed_count = jobs[j].failed_count
              /\ dlq' = dlq
      ]_vars

\* the changes of status the lifecycle of a content record allows
AllowedStatusChanges ==
    { <<"PENDING", "SCRAPING">>, <<"SCRAPING", "SCRAPED">>,
      <<"SCRAPING", "FAILED">>, <<"FAILED", "PENDING">> }

\* C23: every change of a content record's status is PENDING -> SCRAPING,
\* SCRAPING -> SCRAPED, SCRAPING -> FAILED or FAILED -> PENDING; in
\* particular a SCRAPED record never changes status.
C23_StatusChangesAllowed ==
    [][\A a \in 1..Len(articles) :
          articles'[a].status # articles[a].status =>
              <<articles[a].status, articles'[a].status>> \in AllowedStatusChanges
      ]_vars

\* C24: a step of a worker creates no content record and no job and leaves
\* every record's reference_count and every job's total_articles,
\* new_articles, cached_articles and article_ids as they are; a step of a
\* submission leaves every job's completed_count and failed_count as they
\* are.
C24_OwnershipFrame ==
    [][/\ (\E w \in Workers : worker'[w] # worker[w]) =>
             /\ Len(articles') = Len(articles)
             /\ Len(jobs') = Len(jobs)
             /\ \A a \in 1..Len(articles) :
                   articles'[a].reference_count = articles[a].reference_count
             /\ \A j \in JobIds :
                   /\ jobs'[j].total_articles = jobs[j].total_articles
                   /\ jobs'[j].new_articles = jobs[j].new_articles
                   /\ jobs'[j].cached_articles = jobs[j].cached_articles
                   /\ jobs'[j].article_ids = jobs[j].article_ids
       /\ (\E c \in Coordinators : coord'[c] # coord[c]) =>
             \A j \in JobIds :
                 /\ jobs'[j].completed_count = jobs[j].completed_count
                 /\ jobs'[j].failed_count = jobs[j].failed_count
      ]_vars

\* C24 witness: a job of one cached and one new item: the submission has
\* counted the reuse, a worker has counted the completion.
C24_Witness ==
    \E j \in JobIds :
        /\ jobs[j].cached_articles = 1
        /\ jobs[j].new_articles = 1
        /\ jobs[j].completed_count = 1
        /\ \E a \in 1..Len(articles) : articles[a].reference_count = 1

\* the number of submissions whose step is the reuse of record a
Reuses(a) ==
    Cardinality({c \in Coordinators :
                    /\ CoordLeaves(c, "classify")
                    /\ IsCached(coord[c].existing, coord[c].seen)
                    /\ coord[c].existing = a})

\* C25: in every step each content record's reference_count grows by
\* exactly the number of cached classifications of it made in that step, so
\* after k of them, interleaved in any way, it has grown by exactly k.
C25_ReferenceCountAdditive ==
    [][\A a \in 1..Len(articles) :
          articles'[a].reference_count = articles[a].reference_count + Reuses(a)
      ]_vars

\* C25 witness: two submissions, interleaved, have both reused the same
\* record before either created its job.
C25_Witness ==
    /\ \A c \in Coordinators : coord[c].pc = "create_job" /\ coord[c].existing_articles_count = 1
    /\ \E a \in 1..Len(articles) : articles[a].reference_count = 2

---------------------------------------------------------------------------
(* GET /jobs/{job_id}/results *)

\* get_by_ids: find({"_id": {"$in": ids}}): each document found once
GetByIds(as, ids) == {a \in 1..Len(as) : \E k \in 1..Len(ids) : ids[k] = a}

\* get_job_results: the found records split by status; a record that is
\* neither SCRAPED nor FAILED goes into neither list
JobResults(j) ==
    LET found == GetByIds(articles, jobs[j].article_ids)
    IN  [successful |-> Cardinality({a \in found : articles[a].status = "SCRAPED"}),
         failed |-> Cardinality({a \in found : articles[a].status = "FAILED"}),
         total_articles |-> jobs[j].total_articles]

\* C26: for every job, at any time, the results query returns as many
\* success records plus failure records as the job's article_ids has entries.
C26_ResultsCoverMembers ==
    \A j \in JobIds :
        JobResults(j).successful + JobResults(j).failed = Len(jobs[j].article_ids)

---------------------------------------------------------------------------

\* C27: the dead-letter store changes only by the push of a worker that
\* gives up: the new record is put at the head and holds the task as the
\* worker holds it, failed_at, the final error and the worker's id, and
\* every record already there stays, unchanged and in order; a dequeue takes
\* nothing from it, and no dead-lettered task is resident in the queue.
C27_DeadLettersAppendOnly ==
    [][/\ dlq' # dlq =>
             \E w \in Workers :
                 /\ Leaves(w, "dlq_push")
                 /\ dlq' = <<[task |-> worker[w].task, failed_at |-> "utcnow",
                              final_error |-> worker[w].error, worker_id |-> w]>> \o dlq
                 /\ worker[w].error # None
                 /\ queue' = queue
       /\ \A k \in 1..Len(dlq) : dlq'[Len(dlq') - Len(dlq) + k] = dlq[k]
       /\ \A w \in Workers : Leaves(w, "idle") => dlq' = dlq
       /\ \A k \in 1..Len(dlq'), e \in queue' : e.msg # dlq'[k].task
      ]_vars

\* C27 witness: a second record has been pushed, the first is still there,
\* the url of the first has been resubmitted, and the system is at rest.
C27_Witness ==
    /\ Len(dlq) = 2
    /\ dlq[2] = DeadBefore
    /\ dlq[1].task.article_id = dlq[2].task.article_id
    /\ dlq[1].task.job_id # dlq[2].task.job_id
    /\ Quiescent

\* C28: a job whose status is COMPLETED has status COMPLETED in every later
\* state.
C28_CompletedIsStable ==
    [][\A j \in JobIds : jobs[j].status = "COMPLETED" => jobs'[j].status = "COMPLETED"]_vars

\* the tasks of job j that are resident in the queue or in a worker's hands
\* and not yet counted in the job's ledger
TasksOf(j) ==
    Cardinality({e \in queue : e.msg.job_id = j})
    + Cardinality({w \in Workers :
                      /\ worker[w].pc \in {"received", "update_scraped", "inc_completed",
                                           "backoff", "mark_failed", "inc_failed"}
                      /\ worker[w].task.job_id = j})

\* C29: when publish_all returns, the tasks of its job that are resident or
\* being processed, together with those the workers have already counted as
\* completed or failed, are as many as the job's new_articles.
C29_TasksMatchNewArticles ==
    [][\A c \in Coordinators :
          CoordLeaves(c, "set_status") =>
              TasksOf(coord[c].job_id)
                + jobs[coord[c].job_id].completed_count
                + jobs[coord[c].job_id].failed_count
              = jobs[coord[c].job_id].new_articles
      ]_vars

\* C30: a submission that finds a url's record PENDING or SCRAPING, the
\* record still being so when the submission acts on it, leaves the
\* record's status as it is.
C30_UnresolvedNotReset ==
    [][\A c \in Coordinators :
          ( /\ CoordLeaves(c, "classify")
            /\ coord[c].seen \in {"PENDING", "SCRAPING"}
            /\ articles[coord[c].existing].status = coord[c].seen )
          => articles'[coord[c].existing].status = articles[coord[c].existing].status
      ]_vars

---------------------------------------------------------------------------

\* C31: every content record in the article_ids of a COMPLETED job is
\* SCRAPED or FAILED; the one exception allowed for is a record that had
\* failed (it carries an error message) and that a later submission has
\* taken up for a retry.
C31_CompletedJobMembersTerminal ==
    \A j \in JobIds :
        jobs[j].status = "COMPLETED" =>
            \A k \in 1..Len(jobs[j].article_ids) :
                LET a == jobs[j].article_ids[k]
                IN  \/ articles[a].status \in {"SCRAPED", "FAILED"}
                    \/ articles[a].error_message # None

\* GET /jobs/{job_id}/status: the JobStatusResponse built from the job read
JobStatus(j) ==
    [status |-> jobs[j].status, total_articles |-> jobs[j].total_articles,
     completed |-> jobs[j].completed_count, failed |-> jobs[j].failed_count,
     pending |-> PendingCount(jobs[j])]

\* C32: whenever the status query reports a job COMPLETED, the pending
\* value it reports is 0.
C32_CompletedReportsNoPending ==
    \A j \in JobIds : JobStatus(j).status = "COMPLETED" => JobStatus(j).pending = 0

\* C33: a worker comes to increment_completed only by the step that writes
\* its task's record SCRAPED with title and content; completed_count of a
\* job changes only by the increment_completed step of a worker holding one
\* of its tasks, by exactly 1; and that step leads to the check.
C33_ScrapedThenCountedThenChecked ==
    [][/\ \A w \in Workers :
             /\ (worker'[w].pc = "inc_completed" /\ worker[w].pc # "inc_completed") =>
                   /\ worker[w].pc = "update_scraped"
                   /\ worker'[w].task = worker[w].task
                   /\ articles'[worker[w].task.article_id].status = "SCRAPED"
                   /\ articles'[worker[w].task.article_id].title # None
                   /\ articles'[worker[w].task.article_id].content # None
                   /\ jobs' = jobs
             /\ Leaves(w, "inc_completed") =>
                   /\ worker'[w].pc = "check_read"
                   /\ worker'[w].task = worker[w].task
                   /\ articles' = articles
             /\ (Leaves(w, "check_read") /\ worker[w].error = None) =>
                   /\ jobs' = jobs
                   /\ worker'[w].pc = "check_write" <=> AllProcessed(jobs[worker[w].task.job_id])
       /\ \A j \in JobIds :
             jobs'[j].completed_count # jobs[j].completed_count =>
                 /\ jobs'[j].completed_count = jobs[j].completed_count + 1
                 /\ \E w \in Workers : Leaves(w, "inc_completed") /\ worker[w].task.job_id = j
      ]_vars

\* C33 witness: a worker is in the check after it counted a first-attempt
\* success, and the record it wrote is SCRAPED.
C33_Witness ==
    \E w \in Workers :
        /\ worker[w].pc = "check_read"
        /\ worker[w].error = None
        /\ worker[w].task.retry_count = 0
        /\ jobs[worker[w].task.job_id].completed_count = 1
        /\ articles[worker[w].task.article_id].status = "SCRAPED"

\* the errors process_article hands to handle_failure after a scrape
FetchErrors == {"Request timeout", "Failed to extract title or content"}

\* C34: a scrape step either goes on to the SCRAPED write or enters the
\* failure handling in one and the same way for a raised error and for an
\* empty title or content (retry_count + 1, then backoff or giving up), and
\* leaves the record SCRAPING and the jobs untouched; from then on the
\* worker's steps of that attempt neither write SCRAPED nor change a
\* completed_count.
C34_EmptyExtractionIsFailure ==
    [][\A w \in Workers :
          /\ Leaves(w, "received") =>
                \/ /\ worker'[w] = [worker[w] EXCEPT !.pc = "update_scraped"]
                \/ /\ \E e \in FetchErrors :
                         LET rc == worker[w].task.retry_count + 1
                         IN  worker'[w] =
                                [worker[w] EXCEPT
                                    !.task.retry_count = rc,
                                    !.error = e,
                                    !.pc = IF rc >= max_retries THEN "mark_failed" ELSE "backoff",
                                    !.backoff_time = IF rc >= max_retries THEN 0 ELSE Backoff(rc)]
                   /\ articles'[worker[w].task.article_id].status = "SCRAPING"
                   /\ jobs' = jobs
          /\ (worker[w].error # None /\ worker'[w] # worker[w]) =>
                /\ \A j \in JobIds : jobs'[j].completed_count = jobs[j].completed_count
                /\ \A a \in 1..Len(articles) :
                       articles'[a].status = "SCRAPED" => articles[a].status = "SCRAPED"
      ]_vars

\* C34 witness: a worker is in handle_failure's backoff because the scrape
\* gave an empty title or content, and its record is not SCRAPED.
C34_Witness ==
    \E w \in Workers :
        /\ worker[w].pc = "backoff"
        /\ worker[w].error = "Failed to extract title or content"
        /\ articles[worker[w].task.article_id].status = "SCRAPING"

\* the dead-letter records that carry job j's id
DeadLettersOf(j) == {k \in 1..Len(dlq) : dlq[k].task.job_id = j}

\* the workers between increment_failed and the dead-letter append for job j
AboutToDeadLetter(j) == {w \in Workers : worker[w].pc = "dlq_push" /\ worker[w].task.job_id = j}

\* the counts part of C35: the dead-letter records of a job number at most its failed_count,
\* and exactly failed_count less the workers that have incremented it and
\* not yet appended (so the two are equal when there is no such worker);
\* a worker in the check of a terminal failure has its dead-letter record
\* in the store.
DeadLettersWithinFailedCount ==
    /\ \A j \in JobIds :
          /\ Cardinality(DeadLettersOf(j)) <= jobs[j].failed_count
          /\ Cardinality(DeadLettersOf(j)) + Cardinality(AboutToDeadLetter(j)) = jobs[j].failed_count
    /\ \A w \in Workers :
          (worker[w].pc \in {"check_read", "check_write"} /\ worker[w].error # None) =>
              \E k \in 1..Len(dlq) : dlq[k] = DlqData(worker[w], w)

\* the order part of C35: the step into the check of a terminal failure is the
\* dead-letter append, taken after increment_failed, which is taken after
\* the FAILED write.
FailedThenCountedThenDeadLettered ==
    [][\A w \in Workers :
          /\ Leaves(w, "mark_failed") =>
                /\ worker'[w].pc = "inc_failed"
                /\ articles'[worker[w].task.article_id].status = "FAILED"
                /\ articles'[worker[w].task.article_id].error_message = worker[w].error
          /\ Leaves(w, "inc_failed") =>
                /\ worker'[w].pc = "dlq_push"
                /\ jobs'[worker[w].task.job_id].failed_count =
                       jobs[worker[w].task.job_id].failed_count + 1
          /\ Leaves(w, "dlq_push") =>
                /\ worker'[w].pc = "check_read"
                /\ Len(dlq') = Len(dlq) + 1
          /\ (worker'[w].pc = "check_read" /\ worker[w].pc # "check_read" /\ worker[w].error # None) =>
                worker[w].pc = "dlq_push"
      ]_vars


\* C35: in every reachable state a job's dead-letter records number at most
\* its failed_count, and equal it when no worker is between increment_failed
\* and the append; and a terminal failure writes FAILED, counts, appends the
\* dead-letter record and only then enters check_and_complete_job.
C35_DeadLettersFollowFailedCount ==
    []DeadLettersWithinFailedCount /\ FailedThenCountedThenDeadLettered

\* C35 witness: a worker is in the check of a terminal failure of a job
\* that now has one dead-letter record and failed_count 1, while another
\* job already had a dead-letter record.
C35_Witness ==
    \E w \in Workers :
        /\ worker[w].pc = "check_read"
        /\ worker[w].error # None
        /\ Cardinality(DeadLettersOf(worker[w].task.job_id)) = 1
        /\ jobs[worker[w].task.job_id].failed_count = 1
        /\ Len(dlq) = 2

\* what job j's ledger has counted plus the tasks of j still to be counted
Accounted(j) == jobs[j].completed_count + jobs[j].failed_count + TasksOf(j)

\* C36: a process_article call ends in exactly one of three ways: (a) its
\* job's completed_count + 1, nothing enqueued or dead-lettered; (b) the task
\* back in the queue as one more member with retry_count + 1, no counter
\* changed; (c) its job's failed_count + 1 and one dead-letter record more,
\* nothing enqueued. Hence no worker step changes, for any job, the sum of
\* what is counted and what is still to be counted: each enqueued task
\* contributes exactly 1 over its retry chain.
C36_OneOutcomePerCall ==
    [][\A w \in Workers :
          /\ Leaves(w, "inc_completed") =>
                /\ worker[w].error = None
                /\ queue' = queue /\ dlq' = dlq
                /\ \A j \in JobIds : jobs'[j].failed_count = jobs[j].failed_count
          /\ Leaves(w, "backoff") =>
                /\ worker[w].error # None
                /\ worker'[w] = IdleWorker
                /\ jobs' = jobs /\ dlq' = dlq
                /\ Cardinality(queue') = Cardinality(queue) + 1
                /\ \E e \in queue' \ queue :
                       /\ e.msg = worker[w].task
                       /\ e.msg.retry_count >= 1
          /\ Leaves(w, "inc_failed") =>
                /\ worker[w].error # None
                /\ queue' = queue
                /\ \A j \in JobIds : jobs'[j].completed_count = jobs[j].completed_count
          /\ Leaves(w, "dlq_push") =>
                /\ Len(dlq') = Len(dlq) + 1
                /\ queue' = queue /\ jobs' = jobs
          /\ worker'[w] # worker[w] => \A j \in JobIds : Accounted(j)' = Accounted(j)
      ]_vars

\* the place of message m in the order in which q will be dequeued
DequeuePlace(q, m) == Position(DequeueOrder(q), m)

\* the fields of a message in the order json.dumps writes them
Serialized(m) == <<m.job_id, m.article_id, m.url, m.source, m.priority, m.retry_count>>

\* C37 as stated: when a worker re-adds a task after its backoff, the task
\* is dequeued after every other task of equal score that was resident at
\* that moment.
C37_RequeuedGoesBehindItsTier ==
    [][\A w \in Workers :
          Leaves(w, "backoff") =>
              \A e \in queue :
                  (e.score = worker[w].score /\ e.msg # worker[w].task) =>
                      DequeuePlace(queue', worker[w].task) > DequeuePlace(queue', e.msg)
      ]_vars

\* C37: when a worker re-adds a task after its backoff, the task is in the
\* queue at the score it was dequeued with, and it is dequeued after exactly
\* those resident tasks of equal score whose serialized message is
\* lexicographically smaller than its own, and before the others.
C37_RequeuedGoesByMemberOrder ==
    [][\A w \in Workers :
          Leaves(w, "backoff") =>
              /\ [msg |-> worker[w].task, score |-> worker[w].score] \in queue'
              /\ \A e \in queue :
                    (e.score = worker[w].score /\ e.msg # worker[w].task) =>
                        ( DequeuePlace(queue', worker[w].task) > DequeuePlace(queue', e.msg)
                          <=> SeqLess(Serialized(e.msg), Serialized(worker[w].task), 1) )
      ]_vars

\* C37 witness: a redelivered task is in the queue with a task of equal
\* score of a later job that was resident before the re-add, and the
\* redelivered task is the next to be dequeued.
C37_Witness ==
    \E e, f \in queue :
        /\ e.msg.retry_count > 0
        /\ f.msg.retry_count = 0
        /\ f.score = e.score
        /\ f.msg.job_id > e.msg.job_id
        /\ Position(arrivals, f.msg) < Position(arrivals, e.msg)
        /\ ZMin(queue) = e

\* worker w sleeps in handle_failure's retry branch
Waiting(w) == worker[w].pc = "backoff"

\* C38: a worker waits in the retry branch only with retry_count below
\* max_retries, for 2^retry_count time units (2 after the first failure, 4
\* after the second); while it waits its task is neither a member of the
\* queue nor in the dead-letter store, and its next step is the re-add of
\* that task, not a dequeue.
C38_BackoffDoublesAndHoldsTask ==
    /\ [](\A w \in Workers :
             Waiting(w) =>
                 /\ worker[w].task.retry_count \in 1..(max_retries - 1)
                 /\ worker[w].backoff_time = 2 ^ worker[w].task.retry_count
                 /\ \A e \in queue : e.msg # worker[w].task
                 /\ \A k \in 1..Len(dlq) : dlq[k].task # worker[w].task)
    /\ [][\A w \in Workers :
             (Waiting(w) /\ worker'[w] # worker[w]) =>
                 /\ worker'[w] = IdleWorker
                 /\ \E e \in queue' : e.msg = worker[w].task
         ]_vars

---------------------------------------------------------------------------
(* A store fault inside handle_failure *)

\* handle_failure, DLQ branch: update_status(article_id, FAILED, ...) raises.
\* handle_failure has no try block and was called from process_article's
\* except clause, so the exception reaches subscribe, whose
\* "except Exception" prints it, sleeps and goes back to bzpopmin
MarkFailedFails(w) ==
    LET me == worker[w]
    IN  /\ me.pc = "mark_failed"
        /\ worker' = [worker EXCEPT ![w] = IdleWorker]
        /\ UNCHANGED <<articles, jobs, queue, arrivals, dlq, coord, resp, env>>

NextHandlerFaults ==
    \/ Next
    \/ \E w \in Workers : MarkFailedFails(w)

SpecHandlerFaults == Init /\ [][NextHandlerFaults]_vars

\* C39: every failure of a dequeued task uses one unit of its retry budget
\* and leads to the re-add or, at the limit, to the dead-letter branch; and a
\* worker lets go of a dequeued task only by re-adding it to the queue, after
\* counting it completed, or after appending it to the dead-letter store.
C39_NoDequeuedTaskDropped ==
    [][\A w \in Workers :
          /\ (worker[w].pc # "idle" /\ worker[w].error = None /\ worker'[w].pc # "idle"
                                    /\ worker'[w].error # None) =>
                /\ worker'[w].task.retry_count = worker[w].task.retry_count + 1
                /\ worker'[w].pc =
                       IF worker'[w].task.retry_count >= max_retries THEN "mark_failed" ELSE "backoff"
          /\ (worker[w].pc # "idle" /\ worker'[w].pc = "idle") =>
                \/ /\ worker[w].pc = "backoff"
                   /\ \E e \in queue' : e.msg = worker[w].task
                \/ /\ worker[w].pc \in {"check_read", "check_write"}
                   /\ worker[w].error = None
                \/ /\ worker[w].pc \in {"check_read", "check_write"}
                   /\ worker[w].error # None
                   /\ \E k \in 1..Len(dlq) : dlq[k].task = worker[w].task
      ]_vars

=============================================================================
